---- MODULE Spec2Model ----
(***************************************************************************)
(* The image-format plugin catalog of libimageio (imageioplugin.cpp):      *)
(* the registry maps, catalog_plugin, catalog_all_plugins, and the two     *)
(* entry points ImageInput::create and ImageOutput::create, called by      *)
(* several threads under the recursive imageio_mutex.                      *)
(*                                                                         *)
(* Strings are sequences of one-character strings, so that suffix          *)
(* matching, extension extraction and lower-casing are computed the way    *)
(* the code computes them.                                                 *)
(***************************************************************************)
EXTENDS Integers, Sequences, FiniteSets, TLC

VARIABLES
    input_formats,      \* std::map format name / extension -> input factory
    output_formats,     \* std::map format name / extension -> output factory
    plugin_handles,     \* std::map format name -> Plugin::Handle
    plugin_filepaths,   \* std::map format name -> full path
    openModules,        \* modules the loader currently holds open
    warnings,           \* duplicate-plugin warnings written to std::cerr
    env,                \* value of IMAGEIO_LIBRARY_PATH (NoEnv when unset)
    imageio_mutex,      \* recursive mutex: [owner, count]
    stack,              \* per thread: the create() activations, innermost last
    ret,                \* per thread: outcome of the last create() that returned
    scannedPaths,       \* merged search paths a catalog_all_plugins run completed on
    ncalls              \* number of create() calls started so far

vars == <<input_formats, output_formats, plugin_handles, plugin_filepaths,
          openModules, warnings, env, imageio_mutex, stack, ret,
          scannedPaths, ncalls>>

registry == <<input_formats, output_formats, plugin_handles, plugin_filepaths>>

-----------------------------------------------------------------------------
(* Bounds *)

\* create() calls started in one behaviour (top-level and nested)
MaxCalls == 3

Threads == {"t1", "t2"}

-----------------------------------------------------------------------------
(* Strings *)

Upper == <<"A","B","C","D","E","F","G","H","I","J","K","L","M",
           "N","O","P","Q","R","S","T","U","V","W","X","Y","Z">>
Lower == <<"a","b","c","d","e","f","g","h","i","j","k","l","m",
           "n","o","p","q","r","s","t","u","v","w","x","y","z">>

LowerCharId(c) == c

LowerChar(c) ==
    IF \E i \in 1..26 : Upper[i] = c
      THEN Lower[CHOOSE i \in 1..26 : Upper[i] = c]
      ELSE c

\* boost::algorithm::to_lower
to_lower(s) == [i \in 1..Len(s) |-> LowerChar(s[i])]

npos == -1

\* std::string::find (pat): index (from 0) of the first occurrence, or npos
Find(s, pat) ==
    LET hits == {i \in 0..(Len(s) - Len(pat)) :
                    \A j \in 1..Len(pat) : s[i + j] = pat[j]}
    IN IF hits = {} THEN npos
       ELSE CHOOSE i \in hits : \A k \in hits : i <= k

\* std::string::rfind (c): index (from 0) of the last occurrence, or npos
RFindChar(s, c) ==
    LET hits == {i \in 0..(Len(s) - 1) : s[i + 1] = c}
    IN IF hits = {} THEN npos
       ELSE CHOOSE i \in hits : \A k \in hits : i >= k

\* path::leaf(): what follows the last '/'
PathLeaf(p) ==
    LET n == RFindChar(p, "/")
    IN IF n = npos THEN p ELSE SubSeq(p, n + 2, Len(p))

\* boost::filesystem::extension: the leaf from its last '.', or empty
Extension(filename) ==
    LET leaf == PathLeaf(filename)
        n    == RFindChar(leaf, ".")
    IN IF n = npos THEN <<>> ELSE SubSeq(leaf, n + 1, Len(leaf))

\* ".imageio." + Plugin::plugin_extension()
pattern == <<".","i","m","a","g","e","i","o",".","s","o">>

-----------------------------------------------------------------------------
(* The file system and the loadable modules found in it *)

NoEnv    == <<"<", "u", "n", "s", "e", "t", ">">>
NoHandle == <<>>
NoFn     == [mod |-> <<>>, kind |-> "null"]
NoCall   == [kind |-> "none", filename |-> <<>>, searchpath |-> <<>>]
NoSym    == -1

IMAGEIO_VERSION == 9

dirP == <<"/","p">>
dirQ == <<"/","q">>
dirE == <<"/","e">>

PluginLeaf(name) == name \o pattern

\* directory_iterator: the entries of a directory, in walk order
DirEntries(dir) ==
    CASE dir = dirP -> << PluginLeaf(<<"a">>), <<"r",".","t","x","t">>,
                          PluginLeaf(<<"c">>), PluginLeaf(<<"d">>),
                          PluginLeaf(<<"u">>), pattern >>
      [] dir = dirQ -> << PluginLeaf(<<"b">>), PluginLeaf(<<"a">>),
                          PluginLeaf(<<"c">>), PluginLeaf(<<"d">>),
                          PluginLeaf(<<"u">>), PluginLeaf(<<"T">>),
                          PluginLeaf(PluginLeaf(<<"a">>)) >>
      [] dir = dirE -> << PluginLeaf(<<"a">>) >>
      [] OTHER      -> << >>

IsDirectory(dir) == dir \in {dirP, dirQ, dirE}

FullPath(dir, leaf) == dir \o <<"/">> \o leaf

\* What the module file at a path is: whether dlopen succeeds, the value of
\* its imageio_version symbol, the format name its symbols are prefixed
\* with, which creators and extension lists it exports, and the create()
\* call its output creator makes while constructing the codec.
ModuleAt(path) ==
    LET m(opens, ver, pfx, hasIn, hasOut, inE, outE, call) ==
          [opens |-> opens, version |-> ver, prefix |-> pfx,
           hasIn |-> hasIn, hasOut |-> hasOut,
           inExts |-> inE, outExts |-> outE, nested |-> call]
    IN CASE path = FullPath(dirP, PluginLeaf(<<"a">>)) ->
              m(TRUE, IMAGEIO_VERSION, <<"a">>, TRUE, TRUE, <<<<"B">>>>, <<>>, NoCall)
         [] path = FullPath(dirP, PluginLeaf(<<"c">>)) ->
              m(TRUE, IMAGEIO_VERSION, <<"c">>, TRUE, FALSE, <<>>, <<>>, NoCall)
         [] path = FullPath(dirP, PluginLeaf(<<"d">>)) ->
              m(FALSE, NoSym, <<"d">>, FALSE, FALSE, <<>>, <<>>, NoCall)
         [] path = FullPath(dirP, PluginLeaf(<<"u">>)) ->
              m(TRUE, IMAGEIO_VERSION, <<"u">>, FALSE, TRUE, <<>>, <<>>, NoCall)
         [] path = FullPath(dirQ, PluginLeaf(<<"b">>)) ->
              m(TRUE, IMAGEIO_VERSION, <<"b">>, TRUE, FALSE, <<<<"b">>>>, <<>>, NoCall)
         [] path = FullPath(dirQ, PluginLeaf(<<"a">>)) ->
              m(TRUE, IMAGEIO_VERSION, <<"a">>, TRUE, TRUE, <<>>, <<<<"b">>>>,
                [kind |-> "input", filename |-> <<"b">>, searchpath |-> dirP])
         [] path = FullPath(dirQ, PluginLeaf(<<"c">>)) ->
              m(TRUE, IMAGEIO_VERSION - 1, <<"c">>, TRUE, TRUE, <<>>, <<>>, NoCall)
         [] path = FullPath(dirQ, PluginLeaf(<<"d">>)) ->
              m(TRUE, NoSym, <<"d">>, TRUE, TRUE, <<>>, <<>>, NoCall)
         [] path = FullPath(dirQ, PluginLeaf(<<"u">>)) ->
              m(TRUE, IMAGEIO_VERSION, <<"u">>, FALSE, FALSE, <<>>, <<>>, NoCall)
         [] path = FullPath(dirQ, PluginLeaf(<<"T">>)) ->
              m(TRUE, IMAGEIO_VERSION, <<"T">>, TRUE, FALSE, <<>>, <<>>, NoCall)
         [] path = FullPath(dirE, PluginLeaf(<<"a">>)) ->
              m(TRUE, IMAGEIO_VERSION, <<"a">>, TRUE, FALSE, <<>>, <<>>, NoCall)
         [] OTHER ->
              m(FALSE, NoSym, <<>>, FALSE, FALSE, <<>>, <<>>, NoCall)

AllPaths ==
    {FullPath(d, DirEntries(d)[i]) : d \in {dirP}, i \in 1..Len(DirEntries(dirP))}
    \cup {FullPath(d, DirEntries(d)[i]) : d \in {dirQ}, i \in 1..Len(DirEntries(dirQ))}
    \cup {FullPath(d, DirEntries(d)[i]) : d \in {dirE}, i \in 1..Len(DirEntries(dirE))}

\* Plugin::open: the handle of the module, or NoHandle when it cannot be loaded
PluginOpen(path) == IF ModuleAt(path).opens THEN path ELSE NoHandle

\* Plugin::close
PluginClose(mods, handle) == mods \ {handle}

\* Plugin::getsym (handle, "imageio_version"): the value pointed to, or NoSym
GetVersion(handle) == ModuleAt(handle).version

\* Plugin::getsym (handle, format_name + "_<kind>_imageio_create")
GetCreate(handle, format_name, kind) ==
    LET m == ModuleAt(handle)
    IN IF m.prefix = format_name /\ (IF kind = "input" THEN m.hasIn ELSE m.hasOut)
         THEN [mod |-> handle, kind |-> kind]
         ELSE NoFn

\* Plugin::getsym (handle, format_name + "_<kind>_extensions"): the array
\* up to its terminating null (empty when the symbol is absent)
GetExtensions(handle, format_name, kind) ==
    LET m == ModuleAt(handle)
    IN IF m.prefix # format_name THEN <<>>
       ELSE IF kind = "input" THEN m.inExts ELSE m.outExts

-----------------------------------------------------------------------------
(* std::map operations and the registration steps of catalog_plugin *)

MapFind(m, key) == key \in DOMAIN m

\* m[key] = value
MapSet(m, key, value) == (key :> value) @@ m

EmptyMap == << >>

\* The loop over a creator's extension array: each extension is lower-cased
\* and entered only when that key is not yet in the map.
RECURSIVE RegisterExtensions(_, _, _)
RegisterExtensions(m, exts, fn) ==
    IF exts = <<>> THEN m
    ELSE LET ext == to_lower(Head(exts))
         IN RegisterExtensions(IF MapFind(m, ext) THEN m ELSE MapSet(m, ext, fn),
                               Tail(exts), fn)

RegisterCreatorUnchecked(m, format_name, handle, kind) ==
    LET fn == GetCreate(handle, format_name, kind)
    IN RegisterExtensions(MapSet(m, format_name, fn),
                          GetExtensions(handle, format_name, kind), fn)

\* "Look for <kind> creator and list of supported extensions"
RegisterCreator(m, format_name, handle, kind) ==
    LET fn == GetCreate(handle, format_name, kind)
    IN IF fn = NoFn THEN m
       ELSE RegisterExtensions(MapSet(m, format_name, fn),
                               GetExtensions(handle, format_name, kind), fn)

VersionOKPresentOnly(handle) == GetVersion(handle) # NoSym

\* ! (! plugin_version || *plugin_version != IMAGEIO_VERSION)
VersionOK(handle) ==
    GetVersion(handle) # NoSym /\ GetVersion(handle) = IMAGEIO_VERSION

\* dlopen succeeds on the file and its version symbol is the expected one
ValidModule(path) ==
    ModuleAt(path).opens /\ ModuleAt(path).version = IMAGEIO_VERSION

CatalogVerdictNoDuplicateCheck(format_name, plugin_fullpath, filepaths) ==
    IF MapFind(filepaths, format_name) /\ filepaths[format_name] = plugin_fullpath
      THEN "same"
    ELSE IF PluginOpen(plugin_fullpath) = NoHandle THEN "openfail"
    ELSE IF ~VersionOK(PluginOpen(plugin_fullpath)) THEN "badversion"
    ELSE "recorded"

CatalogVerdictNoSameCheck(format_name, plugin_fullpath, filepaths) ==
    IF MapFind(filepaths, format_name) THEN "duplicate"
    ELSE IF PluginOpen(plugin_fullpath) = NoHandle THEN "openfail"
    ELSE IF ~VersionOK(PluginOpen(plugin_fullpath)) THEN "badversion"
    ELSE "recorded"

\* The early returns of catalog_plugin, in the order the code tests them
CatalogVerdict(format_name, plugin_fullpath, filepaths) ==
    IF MapFind(filepaths, format_name)
      THEN IF filepaths[format_name] = plugin_fullpath THEN "same" ELSE "duplicate"
    ELSE IF PluginOpen(plugin_fullpath) = NoHandle THEN "openfail"
    ELSE IF ~VersionOK(PluginOpen(plugin_fullpath)) THEN "badversion"
    ELSE "recorded"

\* The text of the duplicate-plugin warning: the format and the two paths
Warning(format_name, first, second) ==
    [name |-> format_name, first |-> first, second |-> second]

NoWarning == Warning(<<>>, <<>>, <<>>)

-----------------------------------------------------------------------------
(* catalog_all_plugins: the merged search path and the suffix test *)

MergedPathCallerFirst(searchpath) ==
    IF env # NoEnv /\ env # <<>>
      THEN IF Len(searchpath) # 0 THEN searchpath \o <<":">> \o env ELSE env
      ELSE searchpath

\* getenv result merged in front of the caller's search path
MergedPath(searchpath) ==
    IF env # NoEnv /\ env # <<>>
      THEN IF Len(searchpath) # 0 THEN env \o <<":">> \o searchpath ELSE env
      ELSE searchpath

\* Filesystem::searchpath_split (searchpath, dirs, true): the ':'-separated
\* components that are directories, in order
RECURSIVE SplitFrom(_, _)
SplitFrom(s, cur) ==
    LET keep(tok) == IF tok # <<>> /\ IsDirectory(tok) THEN <<tok>> ELSE <<>>
    IN IF s = <<>> THEN keep(cur)
       ELSE IF Head(s) = ":" THEN keep(cur) \o SplitFrom(Tail(s), <<>>)
       ELSE SplitFrom(Tail(s), Append(cur, Head(s)))

searchpath_split(searchpath) == SplitFrom(searchpath, <<>>)

\* found != npos && found == leaf.length() - patlen
MatchesPattern(leaf) ==
    LET found == Find(leaf, pattern)
    IN found # npos /\ found = Len(leaf) - Len(pattern)

\* std::string pluginname (leaf.begin(), leaf.begin() + leaf.length() - patlen)
PluginName(leaf) == SubSeq(leaf, 1, Len(leaf) - Len(pattern))

-----------------------------------------------------------------------------
(* create(): the thread-local part before the lock *)

RejectEmptyNever(filename) == FALSE

\* filename.empty()
RejectEmpty(filename) == filename = <<>>

\* "Extract the file extension from the filename": the extension without its
\* leading dot, or the whole filename when there is no extension
RawFormat(filename) ==
    LET format == Extension(filename)
    IN IF format = <<>> THEN filename
       ELSE IF format[1] = "." THEN Tail(format) ELSE format

\* The key the maps are searched with
FormatKey(filename) == to_lower(RawFormat(filename))

FormatsOf(kind) == IF kind = "input" THEN input_formats ELSE output_formats

-----------------------------------------------------------------------------
(* Threads, activations and the recursive mutex *)

NoThread == "none"

Kinds == {"input", "output"}

\* The filenames and search paths callers pass to create()
Filenames == { <<>>, <<"y",".","B">>, <<"b">> }

SearchPaths == { dirP, dirQ \o <<":">> \o dirP }

\* The values IMAGEIO_LIBRARY_PATH can have: unset, empty, one directory
EnvValues == { NoEnv, <<>>, dirE }

Registry ==
    [inp |-> input_formats, out |-> output_formats,
     handles |-> plugin_handles, paths |-> plugin_filepaths]

NoReg == [inp |-> EmptyMap, out |-> EmptyMap, handles |-> EmptyMap, paths |-> EmptyMap]

\* What one catalog_plugin call did: its arguments, the registry it started
\* from, whether it called Plugin::open, and the warning it wrote
NoLast ==
    [phase |-> "none", name |-> <<>>, path |-> <<>>, reg |-> NoReg,
     opened |-> FALSE, warned |-> NoWarning]

\* The scan-local part of an activation, as it is outside catalog_all_plugins
NoScan ==
    [dirs |-> <<>>, di |-> 0, ei |-> 0, format_name |-> <<>>,
     plugin_fullpath |-> <<>>, handle |-> NoHandle, useful |-> FALSE,
     epath |-> <<>>, repeat |-> FALSE, regStart |-> NoReg,
     scanOpened |-> {}, scanWarned |-> {}, seen |-> {}, last |-> NoLast]

\* One activation of ImageInput::create / ImageOutput::create
NewFrame(kind, filename, searchpath) ==
    [pc |-> "lock", kind |-> kind, filename |-> filename,
     searchpath |-> searchpath, format |-> RawFormat(filename),
     scanned |-> FALSE, fn |-> NoFn, calls |-> 0, nested |-> FALSE,
     scan |-> NoScan]

NoRet == [status |-> "none", kind |-> "none", filename |-> <<>>,
          searchpath |-> <<>>, fn |-> NoFn]

Top(t) == stack[t][Len(stack[t])]

At(t, pc) == stack[t] # <<>> /\ Top(t).pc = pc

SetTop(t, f) == [stack EXCEPT ![t] = [@ EXCEPT ![Len(@)] = f]]

Pop(t) == [stack EXCEPT ![t] = SubSeq(@, 1, Len(@) - 1)]

CanLockUnguarded(t) == TRUE

CanLockNonRecursive(t) == imageio_mutex.owner = NoThread

\* recursive_mutex: free, or already held by the calling thread
CanLock(t) == imageio_mutex.owner \in {NoThread, t}

\* ~recursive_lock_guard
Unlock(m) ==
    IF m.count <= 1 THEN [owner |-> NoThread, count |-> 0]
    ELSE [owner |-> m.owner, count |-> m.count - 1]

KeyMissingUnlessScanned(f) ==
    /\ ~MapFind(FormatsOf(f.kind), f.format)
    /\ MergedPath(f.searchpath) \notin scannedPaths

\* output_formats.find (format) == output_formats.end()  (and for input)
KeyMissing(f) == ~MapFind(FormatsOf(f.kind), f.format)

StillMissingStale(f) == f.scanned

\* The second find, after the scan (if there was one)
StillMissing(f) == ~MapFind(FormatsOf(f.kind), f.format)

Init ==
    /\ input_formats = EmptyMap
    /\ output_formats = EmptyMap
    /\ plugin_handles = EmptyMap
    /\ plugin_filepaths = EmptyMap
    /\ openModules = {}
    /\ warnings = {}
    /\ env \in EnvValues
    /\ imageio_mutex = [owner |-> NoThread, count |-> 0]
    /\ stack = [t \in Threads |-> <<>>]
    /\ ret = [t \in Threads |-> NoRet]
    /\ scannedPaths = {}
    /\ ncalls = 0

-----------------------------------------------------------------------------
(* ImageInput::create / ImageOutput::create *)

\* Entry up to the lock: the empty-filename rejection and the extraction of
\* the format from the filename
Enter(t, kind, filename, searchpath, below) ==
    /\ ncalls < MaxCalls
    /\ ncalls' = ncalls + 1
    /\ IF RejectEmpty(filename)
         THEN /\ ret' = [ret EXCEPT ![t] =
                           [status |-> "InvalidArgument", kind |-> kind,
                            filename |-> filename, searchpath |-> searchpath,
                            fn |-> NoFn]]
              /\ stack' = [stack EXCEPT ![t] = below]
         ELSE /\ stack' = [stack EXCEPT ![t] =
                             Append(below, NewFrame(kind, filename, searchpath))]
              /\ ret' = [ret EXCEPT ![t] = NoRet]
    /\ UNCHANGED <<registry, openModules, warnings, env, imageio_mutex, scannedPaths>>

\* A caller thread calls create()
Create(t) ==
    /\ stack[t] = <<>>
    /\ \E kind \in Kinds, filename \in Filenames, searchpath \in SearchPaths :
          Enter(t, kind, filename, searchpath, stack[t])

\* recursive_lock_guard lock (imageio_mutex)
Acquire(t) ==
    /\ At(t, "lock")
    /\ CanLock(t)
    /\ imageio_mutex' = [owner |-> t, count |-> imageio_mutex.count + 1]
    /\ stack' = SetTop(t, [Top(t) EXCEPT !.pc = "find1"])
    /\ UNCHANGED <<registry, openModules, warnings, env, ret, scannedPaths, ncalls>>

\* to_lower (format); the first lookup, which decides whether to scan
Find1(t) ==
    /\ At(t, "find1")
    /\ LET f == [Top(t) EXCEPT !.format = to_lower(@)]
       IN stack' = SetTop(t, [f EXCEPT !.pc = IF KeyMissing(f) THEN "catalog_all"
                                                ELSE "find2"])
    /\ UNCHANGED <<registry, openModules, warnings, env, imageio_mutex, ret,
                   scannedPaths, ncalls>>

\* catalog_all_plugins up to the directory loop
CatalogAllStart(t) ==
    /\ At(t, "catalog_all")
    /\ LET f  == Top(t)
           sp == MergedPath(f.searchpath)
       IN stack' = SetTop(t,
            [f EXCEPT !.pc = "iter", !.scanned = TRUE,
                      !.scan = [NoScan EXCEPT !.dirs = searchpath_split(sp),
                                              !.di = 1, !.ei = 1,
                                              !.epath = sp,
                                              !.repeat = sp \in scannedPaths,
                                              !.regStart = Registry]])
    /\ UNCHANGED <<registry, openModules, warnings, env, imageio_mutex, ret,
                   scannedPaths, ncalls>>

\* One turn of the loops over directories and their entries: the suffix test
\* on the entry, and the arguments of the catalog_plugin call it leads to
Iterate(t) ==
    /\ At(t, "iter")
    /\ LET f == Top(t)
           s == f.scan
       IN IF s.di > Len(s.dirs)
            THEN /\ stack' = SetTop(t, [f EXCEPT !.pc = "find2",
                                                 !.scan = [s EXCEPT !.last = NoLast,
                                                                    !.seen = {}]])
                 /\ scannedPaths' = scannedPaths \cup {s.epath}
          ELSE IF s.ei > Len(DirEntries(s.dirs[s.di]))
            THEN /\ stack' = SetTop(t, [f EXCEPT !.scan.di = s.di + 1, !.scan.ei = 1])
                 /\ UNCHANGED scannedPaths
          ELSE LET leaf == DirEntries(s.dirs[s.di])[s.ei]
               IN /\ UNCHANGED scannedPaths
                  /\ IF MatchesPattern(leaf)
                       THEN stack' = SetTop(t,
                              [f EXCEPT !.pc = "cp_check",
                                        !.scan.format_name = PluginName(leaf),
                                        !.scan.plugin_fullpath =
                                            FullPath(s.dirs[s.di], leaf)])
                       ELSE stack' = SetTop(t, [f EXCEPT !.scan.ei = s.ei + 1])
    /\ UNCHANGED <<registry, openModules, warnings, env, imageio_mutex, ret, ncalls>>

AfterCatalogAbort(s, last) ==
    LET failed == ~ValidModule(last.path) \/ last.warned # NoWarning
    IN [s EXCEPT !.di = IF failed THEN Len(s.dirs) + 1 ELSE s.di,
                 !.ei = IF failed THEN 1 ELSE s.ei + 1,
                 !.format_name = <<>>, !.plugin_fullpath = <<>>,
                 !.handle = NoHandle, !.useful = FALSE,
                 !.seen = s.seen \cup {<<s.format_name, s.plugin_fullpath>>},
                 !.last = [last EXCEPT !.phase = "done"]]

\* The scan-local state after a catalog_plugin call returned
AfterCatalog(s, last) ==
    [s EXCEPT !.ei = s.ei + 1, !.format_name = <<>>, !.plugin_fullpath = <<>>,
              !.handle = NoHandle, !.useful = FALSE,
              !.seen = s.seen \cup {<<s.format_name, s.plugin_fullpath>>},
              !.last = [last EXCEPT !.phase = "done"]]

\* catalog_plugin, first part: the duplicate check, Plugin::open, the version
\* check, and the entry of path and handle in the master lists
CatalogCheck(t) ==
    /\ At(t, "cp_check")
    /\ LET f    == Top(t)
           s    == f.scan
           name == s.format_name
           path == s.plugin_fullpath
           v    == CatalogVerdict(name, path, plugin_filepaths)
           w    == IF v = "duplicate"
                     THEN Warning(name, plugin_filepaths[name], path)
                     ELSE NoWarning
           didOpen == v \in {"openfail", "badversion", "recorded"}
           last == [phase |-> "running", name |-> name, path |-> path,
                    reg |-> Registry, opened |-> didOpen, warned |-> w]
           s1   == [s EXCEPT !.scanOpened = IF didOpen THEN @ \cup {path} ELSE @,
                             !.scanWarned = IF v = "duplicate" THEN @ \cup {w} ELSE @]
       IN /\ warnings' = IF v = "duplicate" THEN warnings \cup {w} ELSE warnings
          /\ IF v = "recorded"
               THEN /\ plugin_filepaths' = MapSet(plugin_filepaths, name, path)
                    /\ plugin_handles' = MapSet(plugin_handles, name, PluginOpen(path))
                    /\ openModules' = openModules \cup {PluginOpen(path)}
                    /\ stack' = SetTop(t, [f EXCEPT !.pc = "cp_output",
                                             !.scan = [s1 EXCEPT !.handle = PluginOpen(path),
                                                                 !.last = last]])
               ELSE /\ UNCHANGED <<plugin_filepaths, plugin_handles>>
                    /\ openModules' = IF v = "badversion"
                                        THEN PluginClose(openModules \cup {PluginOpen(path)},
                                                         PluginOpen(path))
                                        ELSE openModules
                    /\ stack' = SetTop(t, [f EXCEPT !.pc = "iter",
                                                    !.scan = AfterCatalog(s1, last)])
    /\ UNCHANGED <<input_formats, output_formats, env, imageio_mutex, ret,
                   scannedPaths, ncalls>>

\* catalog_plugin: the output creator and its extensions
CatalogOutput(t) ==
    /\ At(t, "cp_output")
    /\ LET f == Top(t)
           s == f.scan
       IN /\ output_formats' = RegisterCreator(output_formats, s.format_name,
                                               s.handle, "output")
          /\ stack' = SetTop(t,
               [f EXCEPT !.pc = "cp_input",
                         !.scan.useful =
                            GetCreate(s.handle, s.format_name, "output") # NoFn])
    /\ UNCHANGED <<input_formats, plugin_handles, plugin_filepaths, openModules,
                   warnings, env, imageio_mutex, ret, scannedPaths, ncalls>>

\* catalog_plugin: the input creator and its extensions
CatalogInput(t) ==
    /\ At(t, "cp_input")
    /\ LET f == Top(t)
           s == f.scan
       IN /\ input_formats' = RegisterCreator(input_formats, s.format_name,
                                              s.handle, "input")
          /\ stack' = SetTop(t,
               [f EXCEPT !.pc = "cp_close",
                         !.scan.useful =
                            s.useful \/ GetCreate(s.handle, s.format_name, "input") # NoFn])
    /\ UNCHANGED <<output_formats, plugin_handles, plugin_filepaths, openModules,
                   warnings, env, imageio_mutex, ret, scannedPaths, ncalls>>

CatalogCloseErase(t) ==
    /\ At(t, "cp_close")
    /\ LET f == Top(t)
           s == f.scan
           keep == DOMAIN plugin_filepaths \ {s.format_name}
       IN /\ openModules' = IF ~s.useful THEN PluginClose(openModules, s.handle)
                            ELSE openModules
          /\ plugin_filepaths' = IF ~s.useful
                                   THEN [n \in keep |-> plugin_filepaths[n]]
                                   ELSE plugin_filepaths
          /\ plugin_handles' = IF ~s.useful
                                 THEN [n \in keep |-> plugin_handles[n]]
                                 ELSE plugin_handles
          /\ stack' = SetTop(t, [f EXCEPT !.pc = "iter",
                                          !.scan = AfterCatalog(s, s.last)])
    /\ UNCHANGED <<input_formats, output_formats, warnings, env, imageio_mutex,
                   ret, scannedPaths, ncalls>>

CatalogCloseAlways(t) ==
    /\ At(t, "cp_close")
    /\ LET f == Top(t)
           s == f.scan
       IN /\ openModules' = PluginClose(openModules, s.handle)
          /\ stack' = SetTop(t, [f EXCEPT !.pc = "iter",
                                          !.scan = AfterCatalog(s, s.last)])
    /\ UNCHANGED <<registry, warnings, env, imageio_mutex, ret, scannedPaths, ncalls>>

\* catalog_plugin: "If we found neither input nor output creation functions,
\* close the plugin."
CatalogClose(t) ==
    /\ At(t, "cp_close")
    /\ LET f == Top(t)
           s == f.scan
       IN /\ openModules' = IF ~s.useful THEN PluginClose(openModules, s.handle)
                            ELSE openModules
          /\ stack' = SetTop(t, [f EXCEPT !.pc = "iter",
                                          !.scan = AfterCatalog(s, s.last)])
    /\ UNCHANGED <<registry, warnings, env, imageio_mutex, ret, scannedPaths, ncalls>>

\* Leaving create(): the lock guard releases the mutex
Return(t, status, fn) ==
    /\ ret' = [ret EXCEPT ![t] =
                 [status |-> status, kind |-> Top(t).kind,
                  filename |-> Top(t).filename,
                  searchpath |-> Top(t).searchpath, fn |-> fn]]
    /\ stack' = Pop(t)
    /\ imageio_mutex' = Unlock(imageio_mutex)

\* The second lookup: the "could not find a plugin" error, or on to the call
Find2(t) ==
    /\ At(t, "find2")
    /\ IF StillMissing(Top(t))
         THEN Return(t, "PluginNotFound", NoFn)
         ELSE /\ stack' = SetTop(t, [Top(t) EXCEPT !.pc = "invoke", !.scan = NoScan])
              /\ UNCHANGED <<imageio_mutex, ret>>
    /\ UNCHANGED <<registry, openModules, warnings, env, scannedPaths, ncalls>>

\* The map after m[key] was evaluated: std::map::operator[] enters a null
\* value under a key the map does not have
MapIndex(m, key) == IF MapFind(m, key) THEN m ELSE MapSet(m, key, NoFn)

\* create_function = formats[format]; ASSERT (create_function != NULL), which
\* aborts the process when it fails; the creator is called
Invoke(t) ==
    /\ At(t, "invoke")
    /\ LET f  == Top(t)
           m  == MapIndex(FormatsOf(f.kind), f.format)
           fn == m[f.format]
       IN /\ IF f.kind = "input"
               THEN input_formats' = m /\ UNCHANGED output_formats
               ELSE output_formats' = m /\ UNCHANGED input_formats
          /\ stack' = SetTop(t, [f EXCEPT !.pc = IF fn = NoFn THEN "abort"
                                                 ELSE "factory",
                                          !.fn = fn,
                                          !.calls = IF fn = NoFn THEN f.calls
                                                    ELSE f.calls + 1])
    /\ UNCHANGED <<plugin_handles, plugin_filepaths, openModules, warnings, env,
                   imageio_mutex, ret, scannedPaths, ncalls>>

\* The creator, while constructing the codec, calls create() itself
NestedCreate(t) ==
    /\ At(t, "factory")
    /\ ~Top(t).nested
    /\ LET call == ModuleAt(Top(t).fn.mod).nested
       IN /\ Top(t).fn.kind = "output"
          /\ call # NoCall
          /\ Enter(t, call.kind, call.filename, call.searchpath,
                   [stack[t] EXCEPT ![Len(stack[t])].nested = TRUE])

\* The creator returns the new codec instance and create() returns it
FactoryReturn(t) ==
    /\ At(t, "factory")
    /\ Return(t, "ok", Top(t).fn)
    /\ UNCHANGED <<registry, openModules, warnings, env, scannedPaths, ncalls>>

Next ==
    \E t \in Threads :
        \/ Create(t)
        \/ Acquire(t)
        \/ Find1(t)
        \/ CatalogAllStart(t)
        \/ Iterate(t)
        \/ CatalogCheck(t)
        \/ CatalogOutput(t)
        \/ CatalogInput(t)
        \/ CatalogClose(t)
        \/ Find2(t)
        \/ Invoke(t)
        \/ NestedCreate(t)
        \/ FactoryReturn(t)

Spec == Init /\ [][Next]_vars

-----------------------------------------------------------------------------
(* Helpers of the properties *)

Frames(t) == {stack[t][i] : i \in 1..Len(stack[t])}

AllFrames == UNION {Frames(t) : t \in Threads}

\* The catalog_plugin calls that have returned and are still on record
DoneCalls == {f.scan.last : f \in {g \in AllFrames : g.scan.last.phase = "done"}}

\* The catalog_plugin calls on record, returned or still running
KnownCalls == {f.scan.last : f \in {g \in AllFrames : g.scan.last.phase # "none"}}

Range(m) == {m[k] : k \in DOMAIN m}

\* The factories of the module at a path that are stored in either map
Registered(path) ==
    {fn \in Range(input_formats) \cup Range(output_formats) : fn.mod = path}

Exports(path, name) ==
    {kind \in Kinds : GetCreate(path, name, kind) # NoFn}

-----------------------------------------------------------------------------
(* C1 *)

\* C1 (first-registration-wins): once a key of the input map or of the output
\* map is associated with a factory, every later step leaves that key
\* associated with the same factory.
C1_FirstRegistrationWins ==
    [][ /\ \A k \in DOMAIN input_formats :
              MapFind(input_formats', k) /\ input_formats'[k] = input_formats[k]
        /\ \A k \in DOMAIN output_formats :
              MapFind(output_formats', k) /\ output_formats'[k] = output_formats[k]
      ]_vars

-----------------------------------------------------------------------------
(* C2 *)

\* C2 as stated (first-wins for format names): whenever a scan has passed two
\* distinct files claiming the same format name to catalog_plugin, the call
\* for the later file wrote a duplicate warning naming both paths, did not
\* open the module, left the registry unchanged, and no factory of the later
\* file is registered.
C2_SecondFileOfNameIgnored ==
    \A f \in AllFrames :
        LET c == f.scan.last
        IN (/\ c.phase = "done"
            /\ \E e \in f.scan.seen : e[1] = c.name /\ e[2] # c.path)
           => /\ Registry = c.reg
              /\ ~c.opened
              /\ \E e \in f.scan.seen :
                    e[1] = c.name /\ e[2] # c.path
                    /\ c.warned = Warning(c.name, e[2], c.path)
              /\ Registered(c.path) = {}

\* C2 amended: a catalog_plugin call for a format name whose recorded path is
\* a different file writes the duplicate warning naming the recorded path and
\* the new path, does not open the module, leaves the registry unchanged, and
\* no factory of the new file is registered.
C2_DuplicateOfRecordedIgnored ==
    \A c \in KnownCalls :
        (MapFind(c.reg.paths, c.name) /\ c.reg.paths[c.name] # c.path)
        => /\ c.phase = "done"
           /\ Registry = c.reg
           /\ ~c.opened
           /\ c.warned = Warning(c.name, c.reg.paths[c.name], c.path)
           /\ c.warned \in warnings
           /\ Registered(c.path) = {}

C2_Witness ==
    \E c \in DoneCalls :
        /\ MapFind(c.reg.paths, c.name) /\ c.reg.paths[c.name] # c.path
        /\ c.warned # NoWarning

-----------------------------------------------------------------------------
(* C3 *)

\* C3 as stated (idempotent registration): a catalog_all_plugins run on a
\* merged search path that an earlier run completed on ends with every
\* registry map as it was when the run began, has opened no module whose path
\* is recorded, and has written no duplicate-plugin warning.
C3_SecondPassSilent ==
    \A f \in AllFrames :
        (f.pc = "find2" /\ f.scanned /\ f.scan.repeat)
        => /\ Registry = f.scan.regStart
           /\ f.scan.scanOpened \cap Range(plugin_filepaths) = {}
           /\ f.scan.scanWarned = {}

\* C3 amended: such a run ends with every registry map as it was when the run
\* began and has opened no module whose path is recorded; the warnings it
\* wrote are all for a candidate whose path differs from the path recorded
\* for its format name, none for a candidate whose path is the recorded one.
C3_SecondPassIdempotent ==
    \A f \in AllFrames :
        (f.pc = "find2" /\ f.scanned /\ f.scan.repeat)
        => /\ Registry = f.scan.regStart
           /\ f.scan.scanOpened \cap Range(plugin_filepaths) = {}
           /\ \A w \in f.scan.scanWarned :
                 /\ MapFind(f.scan.regStart.paths, w.name)
                 /\ w.first = f.scan.regStart.paths[w.name]
                 /\ w.second # w.first

C3_Witness ==
    \E f \in AllFrames :
        /\ f.pc = "find2" /\ f.scanned /\ f.scan.repeat
        /\ f.scan.scanWarned # {}
        /\ f.scan.regStart.paths # EmptyMap

-----------------------------------------------------------------------------
(* C4 *)

\* The module at the path of call c opens, and its imageio_version symbol is
\* absent or is not IMAGEIO_VERSION
BadVersionModule(c) ==
    /\ ~MapFind(c.reg.paths, c.name)
    /\ ModuleAt(c.path).opens
    /\ ModuleAt(c.path).version # IMAGEIO_VERSION

\* C4 (version gating): a catalog_plugin call that opens a module whose
\* imageio_version symbol is absent or differs from IMAGEIO_VERSION returns
\* with the module closed and the whole registry unchanged: no key added to
\* the input or output map, no path or handle recorded under its format name.
C4_VersionGating ==
    \A c \in KnownCalls :
        BadVersionModule(c)
        => /\ c.phase = "done"
           /\ c.opened
           /\ Registry = c.reg
           /\ c.path \notin openModules
           /\ ~MapFind(plugin_filepaths, c.name)
           /\ ~MapFind(plugin_handles, c.name)
           /\ Registered(c.path) = {}

C4_Witness ==
    \E c \in DoneCalls :
        /\ BadVersionModule(c) /\ c.opened
        /\ ModuleAt(c.path).version \notin {NoSym, IMAGEIO_VERSION}

-----------------------------------------------------------------------------
(* C5 and C6 *)

\* The module at the path of call c opens with a valid version symbol and
\* exports neither the input nor the output creator
UselessModule(c) ==
    /\ ~MapFind(c.reg.paths, c.name)
    /\ ModuleAt(c.path).opens
    /\ ModuleAt(c.path).version = IMAGEIO_VERSION
    /\ Exports(c.path, c.name) = {}

\* C5 (usefulness gating): a catalog_plugin call on a module with a valid
\* version symbol and neither creator returns with the module closed, the
\* input map and the output map as they were, and no factory of the module
\* stored under any key.
C5_UsefulnessGating ==
    \A c \in DoneCalls :
        UselessModule(c)
        => /\ input_formats = c.reg.inp
           /\ output_formats = c.reg.out
           /\ c.path \notin openModules
           /\ Registered(c.path) = {}

C5_Witness ==
    \E c \in DoneCalls : UselessModule(c) /\ c.opened

\* C6 (Plugin Record invariant): outside a running catalog_plugin call, a
\* format name has a recorded path only if the module at that path exported
\* at least one creator; and a call on a module with neither creator leaves
\* the whole registry as it was.
C6_RecordOnlyIfUseful ==
    /\ \A name \in DOMAIN plugin_filepaths :
          (\A c \in KnownCalls : c.phase = "running" => c.name # name)
          => Exports(plugin_filepaths[name], name) # {}
    /\ \A c \in DoneCalls : UselessModule(c) => Registry = c.reg

-----------------------------------------------------------------------------
(* C7 *)

\* A step in which a create() call was made and no activation was entered
RejectedCall ==
    /\ ncalls' # ncalls
    /\ \A t \in Threads : Len(stack'[t]) <= Len(stack[t])

\* C7 (empty filename): a create() call with an empty filename returns
\* InvalidArgument with a null result in the step that makes it, with no
\* activation entered, the mutex untouched, no scan, no module opened and no
\* registry map changed; no activation ever runs with an empty filename.
C7_EmptyFilenameRejected ==
    /\ [](\A t \in Threads :
            /\ \A f \in Frames(t) : f.filename # <<>>
            /\ ret[t].status = "InvalidArgument"
                 <=> (ret[t].status # "none" /\ ret[t].filename = <<>>)
            /\ ret[t].status = "InvalidArgument" => ret[t].fn = NoFn)
    /\ [][RejectedCall =>
            /\ UNCHANGED <<registry, openModules, warnings, imageio_mutex,
                           scannedPaths>>
            /\ \A t \in Threads :
                  /\ Len(stack'[t]) = Len(stack[t])
                  /\ \A i \in 1..Len(stack[t]) : stack'[t][i].pc = stack[t][i].pc
                  /\ ret'[t] # ret[t] => ret'[t].status = "InvalidArgument"
       ]_vars

C7_Witness ==
    \E t \in Threads :
        /\ ret[t].status = "InvalidArgument"
        /\ imageio_mutex.owner = NoThread
        /\ plugin_filepaths = EmptyMap

-----------------------------------------------------------------------------
(* C8 *)

\* The activation thread t leaves in this step
Returns(t) == Len(stack'[t]) < Len(stack[t])

\* C8 (dispatch outcome): a create() call with a non-empty filename returns
\* PluginNotFound, with a null result and carrying the filename and the
\* caller's search path, exactly when the key derived from the filename is
\* absent from the map of its kind after the scan the miss triggered;
\* otherwise it has called the factory mapped to that key, once, and returns
\* that factory's instance.
C8_DispatchOutcome ==
    /\ [](\A t \in Threads :
            /\ \A f \in Frames(t) :
                  /\ f.calls = (IF f.pc = "factory" THEN 1 ELSE 0)
                  /\ f.pc = "factory" => f.fn # NoFn
            /\ At(t, "factory") /\ ~Top(t).nested
                 => /\ MapFind(FormatsOf(Top(t).kind), FormatKey(Top(t).filename))
                    /\ Top(t).fn = FormatsOf(Top(t).kind)[FormatKey(Top(t).filename)])
    /\ [][\A t \in Threads :
            /\ Returns(t) =>
                 LET f == Top(t)
                     absent == ~MapFind(FormatsOf(f.kind), FormatKey(f.filename))
                 IN /\ ret'[t].kind = f.kind
                    /\ ret'[t].filename = f.filename
                    /\ ret'[t].searchpath = f.searchpath
                    /\ ret'[t].status = "PluginNotFound" <=> absent
                    /\ absent => f.scanned /\ f.calls = 0 /\ ret'[t].fn = NoFn
                    /\ ~absent => /\ ret'[t].status = "ok"
                                  /\ f.calls = 1
                                  /\ ret'[t].fn = f.fn
            /\ At(t, "find2") /\ stack'[t] # stack[t]
                 /\ MapFind(FormatsOf(Top(t).kind), FormatKey(Top(t).filename))
                 => ~Returns(t)
       ]_vars

C8_Witness ==
    \E t, u \in Threads :
        /\ ret[t].status = "PluginNotFound" /\ ret[t].filename # <<>>
        /\ ret[u].status = "ok" /\ ret[u].fn # NoFn

-----------------------------------------------------------------------------
(* C9 *)

\* Filenames whose keys are compared
KeyProbes ==
    { <<"y",".","B">>, <<"y",".","b">>, <<"B">>, <<"b">>,
      <<"x","/","A">>, <<"x","/","a">>, <<"u",".">>, <<"U">>, <<"u">> }

\* Two strings that differ at most in the case of their letters
SameButCase(a, b) ==
    /\ Len(a) = Len(b)
    /\ \A i \in 1..Len(a) :
          \/ a[i] = b[i]
          \/ \E j \in 1..26 : {a[i], b[i]} = {Upper[j], Lower[j]}

\* The pairs of filenames whose keys before lower-casing differ at most in case
ProbePairs ==
    {pr \in ((KeyProbes \cup Filenames) \ {<<>>}) \X KeyProbes :
        SameButCase(RawFormat(pr[1]), RawFormat(pr[2]))}

\* The keys create() derives for the two filenames of each such pair
ProbeKeyPairs == {<<FormatKey(pr[1]), FormatKey(pr[2])>> : pr \in ProbePairs}

\* What the finds of create() give for a key in the current maps
Lookup(kind, key) ==
    IF MapFind(FormatsOf(kind), key) THEN FormatsOf(kind)[key] ELSE NoFn

\* What create() resolves a filename to in the current maps
Resolve(kind, filename) == Lookup(kind, FormatKey(filename))

\* C9 (key derivation): the key of a create() call is the lower-cased
\* extension of the filename without its dot, or the lower-cased whole
\* filename when it has no extension; so in every registry state two
\* filenames whose derived keys differ only in letter case resolve to the
\* same factory or both to none, and a factory being called is the one its
\* filename resolves to.
C9_KeyDerivation ==
    /\ \A kind \in Kinds, kp \in ProbeKeyPairs :
          Lookup(kind, kp[1]) = Lookup(kind, kp[2])
    /\ \A f \in AllFrames :
          /\ f.pc \notin {"lock", "find1"} =>
                /\ SameButCase(f.format, RawFormat(f.filename))
                /\ \A i \in 1..Len(f.format) :
                      \A j \in 1..26 : f.format[i] # Upper[j]
          /\ f.pc = "factory" /\ ~f.nested => f.fn = Resolve(f.kind, f.filename)
    /\ RawFormat(<<"y",".","B">>) = <<"B">>
    /\ RawFormat(<<"x","/","A">>) = <<"x","/","A">>
    /\ RawFormat(<<"u",".">>) = <<>>

C9_Witness ==
    \E t \in Threads :
        /\ ret[t].status = "ok"
        /\ ret[t].filename = <<"y",".","B">>
        /\ Resolve(ret[t].kind, <<"y",".","b">>) = ret[t].fn

-----------------------------------------------------------------------------
(* C10 *)

InSection(f) == f.pc # "lock"

MidCatalog(f) == f.pc \in {"cp_output", "cp_input", "cp_close"}

\* C10 (mutual exclusion): a thread with an activation past the lock
\* acquisition, which is where every lookup, every registry mutation and the
\* whole of catalog_all_plugins / catalog_plugin run, is the owner of
\* imageio_mutex, with one count per such activation; so no two threads are
\* past the lock at once, and while a thread is between recording a plugin's
\* path and registering its factories no other thread is at a lookup.
C10_MutualExclusion ==
    /\ \A t \in Threads :
          LET inside == {i \in 1..Len(stack[t]) : InSection(stack[t][i])}
          IN inside # {} => /\ imageio_mutex.owner = t
                            /\ imageio_mutex.count = Cardinality(inside)
    /\ imageio_mutex.owner = NoThread <=> imageio_mutex.count = 0
    /\ imageio_mutex.owner = NoThread =>
          \A f \in AllFrames : ~InSection(f)
    /\ \A t, u \in Threads :
          (t # u /\ \E f \in Frames(u) : MidCatalog(f))
          => \A g \in Frames(t) : ~InSection(g)

C10_Witness ==
    \E t, u \in Threads :
        /\ t # u
        /\ At(u, "cp_output")
        /\ MapFind(plugin_filepaths, Top(u).scan.format_name)
        /\ Exports(Top(u).scan.plugin_fullpath, Top(u).scan.format_name) # {}
        /\ Registered(Top(u).scan.plugin_fullpath) = {}
        /\ At(t, "lock")

-----------------------------------------------------------------------------
(* The walk of a list of directories *)

Directories == {dirP, dirQ, dirE}

\* The entries of a directory that pass the suffix test, in walk order, each
\* as the <<format name, full path>> handed to catalog_plugin
DirCandidates(dir) ==
    LET es == SelectSeq(DirEntries(dir), MatchesPattern)
    IN [i \in 1..Len(es) |-> <<PluginName(es[i]), FullPath(dir, es[i])>>]

CandidatesIn == [dir \in Directories |-> DirCandidates(dir)]

\* The catalog_plugin calls of a scan of dirs, in order
RECURSIVE Walk(_)
Walk(dirs) ==
    IF dirs = <<>> THEN <<>> ELSE CandidatesIn[Head(dirs)] \o Walk(Tail(dirs))

ValidPaths == {p \in AllPaths : ValidModule(p)}

\* The activation is inside catalog_all_plugins, or has just left it
Scanning(f) == f.pc \in {"iter", "cp_check", "cp_output", "cp_input", "cp_close"}

ScanDone(f) == f.pc = "find2" /\ f.scanned

-----------------------------------------------------------------------------
(* C11 *)

\* The path is that of an entry of the directory
UnderDir(p, dir) ==
    Len(p) > Len(dir) /\ SubSeq(p, 1, Len(dir) + 1) = dir \o <<"/">>

\* The directories IMAGEIO_LIBRARY_PATH names (none when unset or empty)
EnvDirs == IF env = NoEnv \/ env = <<>> THEN <<>> ELSE searchpath_split(env)

\* C11 (environment path precedence): a scan walks the directories of the
\* environment path first and the caller's directories after them, and only
\* the caller's directories when the environment path is unset or empty; so
\* a format name for which an environment directory holds a valid plugin is
\* never recorded under a plugin of another directory.
C11_EnvironmentFirst ==
    /\ \A f \in AllFrames :
          (Scanning(f) \/ ScanDone(f))
          => f.scan.dirs = EnvDirs \o searchpath_split(f.searchpath)
    /\ \A name \in DOMAIN plugin_filepaths :
          LET w  == Walk(EnvDirs)
              ok == {i \in 1..Len(w) : w[i][1] = name /\ w[i][2] \in ValidPaths}
          IN ok # {} =>
               \E i \in ok : /\ \A j \in ok : i <= j
                             /\ plugin_filepaths[name] = w[i][2]
    /\ (env = NoEnv \/ env = <<>>) =>
          \A p \in Range(plugin_filepaths) \cup openModules
                    \cup UNION {f.scan.scanOpened : f \in AllFrames} :
              ~UnderDir(p, dirE)

C11_Witness ==
    \E f \in AllFrames :
        /\ ScanDone(f)
        /\ env = dirE
        /\ f.scan.dirs = <<dirE, dirP>>
        /\ FullPath(dirP, PluginLeaf(<<"a">>)) \in ValidPaths
        /\ plugin_filepaths[<<"a">>] = FullPath(dirE, PluginLeaf(<<"a">>))
        /\ f.scan.scanWarned # {}

-----------------------------------------------------------------------------
(* C12 *)

\* The key of the activation is in the map of its kind
KeyPresent(f) == MapFind(FormatsOf(f.kind), FormatKey(f.filename))

TopAfter(t) == stack'[t][Len(stack'[t])]

\* C12 (scan on every miss): the first lookup of a create() call sends it
\* into catalog_all_plugins exactly when its key is absent, whatever was
\* scanned before; an activation enters catalog_all_plugins only from that
\* lookup and only once, walks every directory to the end, and skips the
\* scan altogether when the key is present.
C12_ScanOnEveryMiss ==
    /\ [](\A f \in AllFrames :
            /\ f.pc \in {"lock", "find1", "catalog_all"} => ~f.scanned
            /\ Scanning(f) => f.scanned
            /\ f.pc = "catalog_all" => ~KeyPresent(f)
            /\ (f.pc = "find2" /\ ~f.scanned) => KeyPresent(f)
            /\ ScanDone(f) => f.scan.di = Len(f.scan.dirs) + 1)
    /\ [][\A t \in Threads :
            (stack[t] # <<>> /\ Len(stack'[t]) = Len(stack[t])
               /\ TopAfter(t).pc # Top(t).pc)
            => /\ Top(t).pc = "find1" =>
                    /\ TopAfter(t).pc = "catalog_all" <=> ~KeyPresent(Top(t))
                    /\ TopAfter(t).pc = "find2" <=> KeyPresent(Top(t))
               /\ TopAfter(t).pc = "catalog_all" => Top(t).pc = "find1"
               /\ Top(t).pc = "catalog_all" =>
                    /\ TopAfter(t).pc = "iter"
                    /\ ~Top(t).scanned /\ TopAfter(t).scanned
                    /\ TopAfter(t).scan.di = 1 /\ TopAfter(t).scan.ei = 1
               /\ TopAfter(t).pc = "iter" =>
                    Top(t).pc \in {"catalog_all", "cp_check", "cp_close"}
       ]_vars

C12_Witness ==
    \E f \in AllFrames :
        /\ ScanDone(f)
        /\ f.scan.repeat
        /\ ~KeyPresent(f)
        /\ f.scan.dirs # <<>>

-----------------------------------------------------------------------------
(* C13 *)

\* Every key of map m is a key of map n
KeysKept(m, n) == DOMAIN m \subseteq DOMAIN n

\* C13 (monotonic registry): no step removes a key from the input map, the
\* output map, the path bookkeeping or the handle bookkeeping; so the key of
\* a create() call that returned an instance is in the map of its kind, and
\* an activation with that kind and key goes from its first lookup to the
\* factory call without a scan, whatever its search path.
C13_MonotonicRegistry ==
    /\ [][ /\ KeysKept(input_formats, input_formats')
           /\ KeysKept(output_formats, output_formats')
           /\ KeysKept(plugin_filepaths, plugin_filepaths')
           /\ KeysKept(plugin_handles, plugin_handles')
         ]_vars
    /\ [](\A t \in Threads :
            ret[t].status = "ok" =>
              /\ MapFind(FormatsOf(ret[t].kind), FormatKey(ret[t].filename))
              /\ \A f \in AllFrames :
                    (f.kind = ret[t].kind
                       /\ FormatKey(f.filename) = FormatKey(ret[t].filename))
                    => /\ f.pc # "catalog_all" /\ ~Scanning(f)
                       /\ f.pc = "find2" => ~StillMissing(f))
    /\ [][\A t \in Threads :
            (At(t, "find1") /\ stack'[t] # stack[t] /\ KeyPresent(Top(t)))
            => TopAfter(t).pc = "find2" /\ ~TopAfter(t).scanned
       ]_vars

C13_Witness ==
    \E t, u \in Threads :
        /\ t # u
        /\ ret[t].status = "ok"
        /\ At(u, "invoke") /\ ~Top(u).scanned
        /\ Top(u).kind = ret[t].kind
        /\ FormatKey(Top(u).filename) = FormatKey(ret[t].filename)
        /\ Top(u).searchpath # ret[t].searchpath

-----------------------------------------------------------------------------
(* C14 *)

\* The plugin files whose leaf gives the format name
PluginPaths == {p \in AllPaths : MatchesPattern(PathLeaf(p))}

FilesByName ==
    [name \in {PluginName(PathLeaf(p)) : p \in PluginPaths} |->
        {p \in PluginPaths : PluginName(PathLeaf(p)) = name}]

FilesNamed(name) == FilesByName[name]

\* The plugin files that export neither creator under their format name
ExportNothing ==
    {p \in PluginPaths : ValidModule(p) /\ Exports(p, PluginName(PathLeaf(p))) = {}}

\* The names whose recorded path is a module with a valid version and
\* neither factory
BlockedIn(paths) ==
    {n \in DOMAIN paths : paths[n] \in ExportNothing}

BlockedNames == BlockedIn(plugin_filepaths)

\* C14 (slot blocking by a useless module): once the path recorded for a
\* name is a module with a valid version and neither factory, the record
\* stays; every later catalog_plugin call for that name with another path
\* returns without opening the file and with the registry as it was, and no
\* file of that name has a factory in either map.
C14_SlotBlocking ==
    /\ [](\A n \in BlockedNames :
            /\ \A p \in FilesNamed(n) :
                  /\ Registered(p) = {}
                  /\ p # plugin_filepaths[n] => p \notin openModules
            /\ \A c \in DoneCalls :
                  (c.name = n /\ n \in BlockedIn(c.reg.paths))
                  => /\ ~c.opened
                     /\ c.reg.paths[n] = plugin_filepaths[n]
                     /\ registry = <<c.reg.inp, c.reg.out, c.reg.handles, c.reg.paths>>)
    /\ [][\A n \in BlockedNames :
            /\ n \in DOMAIN plugin_filepaths'
            /\ plugin_filepaths'[n] = plugin_filepaths[n]
       ]_vars

C14_Witness ==
    \E c \in DoneCalls :
        /\ c.name \in BlockedIn(c.reg.paths)
        /\ c.path # c.reg.paths[c.name]
        /\ ValidModule(c.path)
        /\ Exports(c.path, c.name) # {}

-----------------------------------------------------------------------------
(* C15 *)

\* The candidates of directory dir among its first n entries
CandidatesUpTo ==
    [dir \in Directories |->
        [n \in 0..Len(DirEntries(dir)) |->
            {<<PluginName(DirEntries(dir)[k]), FullPath(dir, DirEntries(dir)[k])>> :
                k \in {j \in 1..n : MatchesPattern(DirEntries(dir)[j])}}]]

\* The candidates a scan of dirs has passed when it stands at entry ei of
\* directory di
RECURSIVE PassedBefore(_, _, _)
PassedBefore(dirs, di, ei) ==
    IF dirs = <<>> THEN {}
    ELSE IF di = 1 THEN CandidatesUpTo[Head(dirs)][ei - 1]
    ELSE Range(CandidatesIn[Head(dirs)]) \cup PassedBefore(Tail(dirs), di - 1, ei)

\* The first candidate of the walk with the name and a loadable module of
\* the expected version, as a set
FirstValid(w, name) ==
    LET ok == {i \in 1..Len(w) : w[i][1] = name /\ w[i][2] \in ValidPaths}
    IN {w[i][2] : i \in {k \in ok : \A j \in ok : k <= j}}

\* C15 (per-plugin failures are local): a scan has passed to catalog_plugin
\* exactly the candidates before its position in the walk order, whatever
\* their outcome; it ends only after the last directory; and when it has
\* ended, every name not recorded at its start is recorded with its first
\* candidate that opens with the expected version, whose creators are
\* stored under that name.
C15_FailuresAreLocal ==
    /\ [](\A f \in AllFrames :
            /\ Scanning(f) =>
                  f.scan.seen = PassedBefore(f.scan.dirs, f.scan.di, f.scan.ei)
            /\ ScanDone(f) =>
                  /\ f.scan.di = Len(f.scan.dirs) + 1
                  /\ f.pc # "abort"
                  /\ \A name \in DOMAIN FilesByName :
                        \A p \in FirstValid(Walk(f.scan.dirs), name) :
                            /\ name \in DOMAIN plugin_filepaths
                            /\ name \notin DOMAIN f.scan.regStart.paths
                                 => /\ plugin_filepaths[name] = p
                                    /\ p \in f.scan.scanOpened
                                    /\ \A kind \in Exports(p, name) :
                                          /\ MapFind(FormatsOf(kind), name)
                                          /\ FormatsOf(kind)[name].mod = p)
    /\ [][\A t \in Threads :
            (At(t, "iter") /\ stack'[t] # stack[t] /\ TopAfter(t).pc = "find2")
            => Top(t).scan.seen = Range(Walk(Top(t).scan.dirs))
       ]_vars

C15_Witness ==
    \E f \in AllFrames :
        /\ ScanDone(f)
        /\ f.scan.dirs = <<dirQ, dirP>>
        /\ ~ValidModule(FullPath(dirQ, PluginLeaf(<<"c">>)))
        /\ ModuleAt(FullPath(dirQ, PluginLeaf(<<"c">>))).opens
        /\ ~ModuleAt(FullPath(dirP, PluginLeaf(<<"d">>))).opens
        /\ f.scan.scanWarned # {}
        /\ <<"c">> \notin DOMAIN f.scan.regStart.paths
        /\ plugin_filepaths[<<"c">>] = FullPath(dirP, PluginLeaf(<<"c">>))
        /\ MapFind(input_formats, <<"c">>)

-----------------------------------------------------------------------------
(* C16 *)

\* The modules whose factories are stored in the input map or the output map
FactoryModules == {fn.mod : fn \in Range(input_formats) \cup Range(output_formats)}

\* C16 (no dangling factory): every factory stored in the input map or the
\* output map belongs to an open module; a step that closes a module is the
\* version-mismatch return or the closing of a module that exported neither
\* creator, the module it closes has no factory in either map, and the step
\* is not one of create() outside catalog_plugin.
C16_NoDanglingFactory ==
    /\ [](FactoryModules \subseteq openModules)
    /\ [][\A m \in openModules \ openModules' :
            /\ Registered(m) = {}
            /\ m \notin FactoryModules'
            /\ \E t \in Threads :
                  /\ stack'[t] # stack[t]
                  /\ Top(t).pc = "cp_close"
                  /\ Top(t).scan.plugin_fullpath = m
                  /\ ~Top(t).scan.useful
                  /\ Exports(m, Top(t).scan.format_name) = {}
       ]_vars
    /\ [][\A t \in Threads :
            (At(t, "cp_check") /\ stack'[t] # stack[t])
            => LET m == Top(t).scan.plugin_fullpath
               IN /\ openModules' \in {openModules, openModules \cup {m}}
                  /\ m \in openModules' \ openModules
                       => ValidModule(m) /\ TopAfter(t).pc = "cp_output"
                  /\ (TopAfter(t).scan.last.opened /\ ~ValidModule(m))
                       => m \notin openModules'
       ]_vars

C16_Witness ==
    \E f \in AllFrames :
        /\ ScanDone(f)
        /\ KeyPresent(f)
        /\ FormatsOf(f.kind)[FormatKey(f.filename)].mod \in f.scan.scanOpened
        /\ \E p \in ExportNothing : p \in f.scan.scanOpened /\ p \notin openModules
        /\ \E p \in PluginPaths :
              /\ ModuleAt(p).opens /\ ~ValidModule(p)
              /\ p \in f.scan.scanOpened /\ p \notin openModules

-----------------------------------------------------------------------------
(* C17 *)

\* The steps of thread t inside create(), once it holds imageio_mutex
Progress(t) ==
    \/ Find1(t)
    \/ CatalogAllStart(t)
    \/ Iterate(t)
    \/ CatalogCheck(t)
    \/ CatalogOutput(t)
    \/ CatalogInput(t)
    \/ CatalogClose(t)
    \/ Find2(t)
    \/ Invoke(t)
    \/ NestedCreate(t)
    \/ FactoryReturn(t)

\* A running thread keeps running, and the lock is fair: a thread that can
\* take imageio_mutex again and again does take it
Fairness == \A t \in Threads : WF_vars(Progress(t)) /\ SF_vars(Acquire(t))

LiveSpec == Spec /\ Fairness

\* The activations of thread t that are past the lock guard
Holding(t) == {i \in 1..Len(stack[t]) : stack[t][i].pc # "lock"}

\* C17 (reentrancy and progress): a thread holds imageio_mutex once for each
\* of its activations past the lock guard, so the factory runs with the
\* mutex held and a create() made from inside the factory finds the mutex
\* owned by its own thread and takes it again; a thread with no activation
\* holds nothing; and, the threads making at most MaxCalls calls in all,
\* every create() of every thread returns: from some state on no thread has
\* an activation and the mutex is free.
C17_ReentrancyAndProgress ==
    /\ [](\A t \in Threads :
            /\ Holding(t) # {} =>
                  /\ imageio_mutex.owner = t
                  /\ imageio_mutex.count = Cardinality(Holding(t))
            /\ Holding(t) = {} => imageio_mutex.owner # t
            /\ imageio_mutex.owner = NoThread <=> imageio_mutex.count = 0
            /\ \A i \in 1..Len(stack[t]) :
                  /\ stack[t][i].pc = "factory" => i \in Holding(t)
                  /\ i > 1 => /\ stack[t][i - 1].pc = "factory"
                              /\ imageio_mutex.owner = t
            /\ (Len(stack[t]) > 1 /\ Top(t).pc = "lock") => ENABLED Acquire(t))
    /\ [][\A t \in Threads :
            (Len(stack[t]) > 1 /\ Top(t).pc = "lock" /\ stack'[t] # stack[t])
            => /\ TopAfter(t).pc = "find1"
               /\ imageio_mutex' = [owner |-> t, count |-> imageio_mutex.count + 1]
       ]_vars
    /\ <>[](/\ \A t \in Threads : stack[t] = <<>>
            /\ imageio_mutex.owner = NoThread)

C17_Witness ==
    \E t, u \in Threads :
        /\ t # u
        /\ Len(stack[t]) = 2
        /\ stack[t][1].pc = "factory"
        /\ stack[t][2].pc = "find1"
        /\ imageio_mutex = [owner |-> t, count |-> 2]
        /\ At(u, "lock")

-----------------------------------------------------------------------------
(* C18 *)

\* The string ends in the suffix
EndsWith(s, suffix) ==
    /\ Len(s) >= Len(suffix)
    /\ SubSeq(s, Len(s) - Len(suffix) + 1, Len(s)) = suffix

\* The entries among the first n of directory dir whose leaf ends in the
\* plugin suffix, each with the leaf minus the suffix and its full path
SuffixEntriesUpTo ==
    [dir \in Directories |->
        [n \in 0..Len(DirEntries(dir)) |->
            {<<SubSeq(DirEntries(dir)[k], 1, Len(DirEntries(dir)[k]) - Len(pattern)),
               FullPath(dir, DirEntries(dir)[k])>> :
                k \in {j \in 1..n : EndsWith(DirEntries(dir)[j], pattern)}}]]

RECURSIVE SuffixEntriesBefore(_, _, _)
SuffixEntriesBefore(dirs, di, ei) ==
    IF dirs = <<>> THEN {}
    ELSE IF di = 1 THEN SuffixEntriesUpTo[Head(dirs)][ei - 1]
    ELSE SuffixEntriesUpTo[Head(dirs)][Len(DirEntries(Head(dirs)))]
            \cup SuffixEntriesBefore(Tail(dirs), di - 1, ei)

\* C18 (suffix matching): a scan has passed to catalog_plugin, with the leaf
\* minus the suffix as format name and the full path, exactly the entries
\* before its position whose leaf ends in the plugin suffix, and no other
\* entry.
C18_SuffixMatching ==
    \A f \in AllFrames :
        Scanning(f) =>
            f.scan.seen = SuffixEntriesBefore(f.scan.dirs, f.scan.di, f.scan.ei)

-----------------------------------------------------------------------------
(* C19 *)

\* C19 (reachability by name): whenever the creator of a recorded plugin is
\* stored under the plugin's format name in the map of its kind, a create()
\* of that kind with the bare format name as filename resolves to that
\* creator.
C19_ReachableByName ==
    \A name \in DOMAIN plugin_filepaths, kind \in Kinds :
        (/\ MapFind(FormatsOf(kind), name)
         /\ FormatsOf(kind)[name].mod = plugin_filepaths[name])
        => /\ ~RejectEmpty(name)
           /\ Resolve(kind, name) = FormatsOf(kind)[name]

-----------------------------------------------------------------------------
(* C20 *)

\* C20 (assertion validity): every value stored in the input map and in the
\* output map is a non-null creator; an activation reaches the lookup by
\* operator[] only with its key present, so the lookup leaves both maps as
\* they are, the ASSERT never fails and the creator is called.
C20_AssertionValid ==
    /\ [](/\ NoFn \notin Range(input_formats) \cup Range(output_formats)
          /\ \A f \in AllFrames :
                /\ f.pc # "abort"
                /\ f.pc = "invoke" =>
                      /\ MapFind(FormatsOf(f.kind), f.format)
                      /\ MapIndex(FormatsOf(f.kind), f.format) = FormatsOf(f.kind))
    /\ [][\A t \in Threads :
            (At(t, "invoke") /\ stack'[t] # stack[t])
            => /\ input_formats' = input_formats
               /\ output_formats' = output_formats
               /\ TopAfter(t).pc = "factory"
               /\ TopAfter(t).fn = FormatsOf(Top(t).kind)[Top(t).format]
       ]_vars

C20_Witness ==
    \E f \in AllFrames :
        /\ f.pc = "factory"
        /\ f.scanned
        /\ f.fn # NoFn
        /\ f.fn = FormatsOf(f.kind)[f.format]
        /\ \E p \in ExportNothing : p \in Range(plugin_filepaths)

====
